---------------------------- MODULE Spec2Model ----------------------------
(***************************************************************************)
(* Model of scripts.js of the portfolio site: the contact form (field      *)
(* validation, submission to the remote endpoint, status message and its   *)
(* auto-clear timer) and the scroll-driven navigation state (throttled     *)
(* "scrolled" chrome, debounced active-section highlighting).              *)
(*                                                                         *)
(* Text the user types is a sequence of one-character strings, so that     *)
(* trim(), length and the e-mail pattern are computed character by         *)
(* character.  Fixed texts of the program (messages, labels) are strings.  *)
(* Time is in milliseconds.                                                *)
(***************************************************************************)
EXTENDS Integers, Sequences, FiniteSets, TLC

VARIABLES
    fields,       \* value of #name, #email, #message
    errText,      \* textContent of each field's .error-message
    ariaInvalid,  \* whether each field carries aria-invalid="true"
    isValidRet,   \* <<b>> when the last validateForm() call returned b, <<>> before any
    statusText,   \* formStatus.textContent
    statusColor,  \* formStatus.style.color
    btnDisabled,  \* submitButton.disabled
    btnLabel,     \* submitButton.innerHTML
    reqs,         \* one record per submit handler that reached fetch(): the
                  \* label it read, where it waits, how its request ended
    posts,        \* the request bodies handed to fetch(), in order
    log,          \* what console.error was given, in order
    timers,       \* the pending setTimeout callbacks that clear the status
    nSubmit,      \* number of submit events dispatched so far
    emailArg,     \* argument of a direct validateEmail call
    emailRet,     \* <<b>> once it returned b
    scrollY,      \* window.scrollY
    navScrolled,  \* nav.classList.contains('scrolled')
    inThrottle,   \* the throttle closure's flag
    throttleTimer, \* elapsed ms of the throttle's pending setTimeout, or -1
    debounceTimer, \* elapsed ms of the debounce's pending setTimeout, or -1
    activeLinks,  \* ids of the nav links that carry the class 'active'
    docState,     \* "loading" until init() ran, "complete" once load fired
    menuOpen,     \* navMenu.classList.contains('open')
    ariaExpanded, \* navToggle's aria-expanded attribute
    bodyOverflow, \* document.body.style.overflow
    scrollTo,     \* top of the last window.scrollTo request, -1 if none
    focus,        \* document.activeElement
    observed,     \* elements fadeInObserver.observe was called on
    visible,      \* elements that carry the class 'visible'
    intersected,  \* elements reported as intersecting so far
    inView,       \* whether each element now intersects the viewport by the
                  \* observer's threshold and margin
    reported,     \* what the observer last reported of each element
    dTimers,      \* debounce: the pending setTimeout(later, wait) calls
    dTimeout,     \* debounce: the closure's timeout (a timer id, 0 before any)
    dRuns,        \* debounce: the arguments func was invoked with, in order
    dSince,       \* debounce: ms since the most recent call, -1 before any
    dLast,        \* debounce: the most recent call's arguments
    tIn,          \* throttle: the closure's inThrottle
    tTimer,       \* throttle: elapsed ms of its pending setTimeout, or -1
    tRuns,        \* throttle: the arguments func was invoked with, in order
    tSince,       \* throttle: ms since the last call that ran func, -1 before any
    nCalls,       \* calls made to the two wrapped functions so far
    lastEvent     \* the event whose listeners ran last (in the specifications
                  \* that record it)

formVars == <<fields, errText, ariaInvalid, isValidRet, statusText, statusColor,
              btnDisabled, btnLabel, reqs, posts, log, timers, nSubmit>>
emailVars == <<emailArg, emailRet>>
navVars == <<scrollY, navScrolled, inThrottle, throttleTimer, debounceTimer,
             activeLinks, docState>>
menuVars == <<menuOpen, ariaExpanded, bodyOverflow, scrollTo, focus>>
fadeVars == <<observed, visible, intersected, inView, reported>>
rateVars == <<dTimers, dTimeout, dRuns, dSince, dLast, tIn, tTimer, tRuns,
              tSince, nCalls>>
uiVars == <<menuVars, fadeVars, rateVars, lastEvent>>
vars == <<formVars, emailVars, navVars, uiVars>>

-----------------------------------------------------------------------------
(* Strings *)

Min(a, b) == IF a < b THEN a ELSE b

\* The characters the pattern's \s and String.prototype.trim treat as blank.
IsSpace(c) == c \in {" ", "\t", "\n", "\r"}

RECURSIVE TrimStart(_)
TrimStart(s) ==
    IF s = <<>> THEN <<>>
    ELSE IF IsSpace(Head(s)) THEN TrimStart(Tail(s)) ELSE s

RECURSIVE TrimEnd(_)
TrimEnd(s) ==
    IF s = <<>> THEN <<>>
    ELSE IF IsSpace(s[Len(s)]) THEN TrimEnd(SubSeq(s, 1, Len(s) - 1)) ELSE s

\* value.trim()
Trim(s) == TrimEnd(TrimStart(s))

RECURSIVE Repeat(_, _)
Repeat(c, n) == IF n <= 0 THEN <<>> ELSE <<c>> \o Repeat(c, n - 1)

-----------------------------------------------------------------------------
(* validateEmail: /^[^\s@]+@[^\s@]+\.[^\s@]+$/ run as an automaton.        *)
(* State 0: at ^; 1: inside the first [^\s@]+; 2: after @; 3: inside the   *)
(* second [^\s@]+; 4: after \. ; 5: inside the third [^\s@]+ (accepting    *)
(* at $).  A '.' read in state 3 may continue the class or be the \. .     *)

InClass(c) == ~IsSpace(c) /\ c # "@"

RegexMove(q, c) ==
    CASE q = 0 -> IF InClass(c) THEN {1} ELSE {}
      [] q = 1 -> (IF InClass(c) THEN {1} ELSE {}) \cup (IF c = "@" THEN {2} ELSE {})
      [] q = 2 -> IF InClass(c) THEN {3} ELSE {}
      [] q = 3 -> (IF InClass(c) THEN {3} ELSE {}) \cup (IF c = "." THEN {4} ELSE {})
      [] q = 4 -> IF InClass(c) THEN {5} ELSE {}
      [] q = 5 -> IF InClass(c) THEN {5} ELSE {}

RECURSIVE RegexRun(_, _)
RegexRun(Q, s) ==
    IF s = <<>> THEN Q
    ELSE RegexRun(UNION {RegexMove(q, Head(s)) : q \in Q}, Tail(s))

validateEmailNoDotCheck(email) == \E i \in 1..Len(email) : email[i] = "@"

validateEmail(email) == 5 \in RegexRun({0}, email)


-----------------------------------------------------------------------------
(* Bounds of the model *)

\* Submit events dispatched in one behaviour.
MaxSubmits == 2
\* A clock step of the form model is StatusClearDelay \div FormGrain ms.
FormGrain == 2
\* Longest string handed to validateEmail directly.
MaxEmailLen == 5
\* Longest run of letters in the inputs handed to validateForm.
MaxLetters == 11
\* Longest run of blanks put before or after those letters.
MaxPad == 1
\* A clock step of the navigation model is DebounceWait \div NavGrain ms.
NavGrain == 2
\* Elements matched by the selectors of observeElements.
NumFadeElements == 3
\* Calls made to the debounced and the throttled function in one behaviour.
MaxCalls == 4

-----------------------------------------------------------------------------
(* Texts and numbers of the program *)

FieldNames == {"name", "email", "message"}

NameRequiredText == "Please enter your name"
NameTooShortText == "Name must be at least 2 characters"
EmailRequiredText == "Please enter your email"
EmailInvalidText == "Please enter a valid email address"
MessageRequiredText == "Please enter a message"
MessageTooShortText == "Message must be at least 10 characters"

MinNameLength == 2
MinMessageLength == 10

\* The two status texts, without the check mark and the cross they start with.
SuccessText == "Message sent successfully! I'll get back to you soon."
FailureText == "Something went wrong. Please try again."
SuccessColor == "var(--accent-cyan)"
FailureColor == "#ff6b6b"
LoadingLabel == "<span>Sending...</span>"
DefaultErrorText == "Submission failed"
StatusClearDelay == 5000

\* What the page's markup gives: the submit button's label, the fields'
\* default values (what reset() restores) and the empty status element.
IdleLabel == "<span>Send Message</span>"
DefaultValues == [name |-> <<>>, email |-> <<>>, message |-> <<>>]

SubjectPrefix ==
    <<"N","e","w"," ","m","e","s","s","a","g","e"," ","f","r","o","m"," ">>
SubjectSuffix ==
    <<" ","-"," ","P","o","r","t","f","o","l","i","o"," ",
      "C","o","n","t","a","c","t"," ","F","o","r","m">>
AccessKey == "f45e1224-9822-4d7b-9ce0-e88fb5594e30"

-----------------------------------------------------------------------------
(* validateForm *)

NameErrorOffByOne(value) ==
    LET name == Trim(value) IN
    IF name = <<>> THEN NameRequiredText
    ELSE IF Len(name) <= MinNameLength THEN NameTooShortText
    ELSE ""

\* The text showError is given for #name, "" when clearError runs instead.
NameError(value) ==
    LET name == Trim(value) IN
    IF name = <<>> THEN NameRequiredText
    ELSE IF Len(name) < MinNameLength THEN NameTooShortText
    ELSE ""

EmailError(value) ==
    LET email == Trim(value) IN
    IF email = <<>> THEN EmailRequiredText
    ELSE IF ~validateEmail(email) THEN EmailInvalidText
    ELSE ""

MessageError(value) ==
    LET message == Trim(value) IN
    IF message = <<>> THEN MessageRequiredText
    ELSE IF Len(message) < MinMessageLength THEN MessageTooShortText
    ELSE ""

\* The three blocks of validateForm: the error text each field ends with
\* and the returned isValid.
validateForm(f) ==
    LET e == [name |-> NameError(f.name),
              email |-> EmailError(f.email),
              message |-> MessageError(f.message)]
    IN [err |-> e, isValid |-> \A k \in FieldNames : e[k] = ""]

\* The DOM after validateForm ran on the current field values: showError
\* sets the text and aria-invalid, clearError removes both.
RunValidateForm ==
    LET r == validateForm(fields) IN
    /\ errText' = r.err
    /\ ariaInvalid' = [k \in FieldNames |-> r.err[k] # ""]
    /\ isValidRet' = <<r.isValid>>


-----------------------------------------------------------------------------
(* The contact form: what the user can type, and the responses the remote  *)
(* endpoint can give                                                       *)

TypedValues ==
    [name |-> {<<>>, <<"a">>, <<"a", "l", " ">>},
     email |-> {<<>>, <<"a", "@", "b", ".", "c">>},
     message |-> {<<>>, Repeat("m", MinMessageLength) \o <<" ">>}]

\* What response.json() can resolve to: the success flag and the optional
\* message ("" when the response carries none).
Results ==
    {[success |-> TRUE, message |-> "Email sent"],
     [success |-> FALSE, message |-> "Invalid access key"],
     [success |-> FALSE, message |-> ""]}

NetworkErrorText == "TypeError: Failed to fetch"
ParseErrorText == "SyntaxError: Unexpected token < in JSON"

-----------------------------------------------------------------------------
(* Field events *)

\* clearError(input)
ClearError(k) ==
    /\ errText' = [errText EXCEPT ![k] = ""]
    /\ ariaInvalid' = [ariaInvalid EXCEPT ![k] = FALSE]

\* The input listener of field k.
InputListener(k) ==
    IF ariaInvalid[k]
      THEN ClearError(k)
      ELSE UNCHANGED <<errText, ariaInvalid>>

\* A blur listener that validates whatever the field holds.
BlurValidatesAlways(v) == TRUE

\* if (input.value.trim()), v being the trimmed value.
BlurValidates(v) == v # <<>>

\* The blur listener of field k.
BlurListener(k) ==
    IF BlurValidates(Trim(fields[k]))
      THEN RunValidateForm
      ELSE UNCHANGED <<errText, ariaInvalid, isValidRet>>

\* The user edits field k: the value changes, then the input listener runs.
Input(k, v) ==
    /\ v # fields[k]
    /\ fields' = [fields EXCEPT ![k] = v]
    /\ InputListener(k)
    /\ UNCHANGED <<isValidRet, statusText, statusColor, btnDisabled, btnLabel,
                   reqs, posts, log, timers, nSubmit, emailVars, uiVars, navVars>>

\* Field k loses focus: the blur listener runs.
Blur(k) ==
    /\ BlurListener(k)
    /\ UNCHANGED <<fields, statusText, statusColor, btnDisabled, btnLabel,
                   reqs, posts, log, timers, nSubmit, emailVars, uiVars, navVars>>

\* The same two events, with the event noted in lastEvent.
FieldInput(k, v) ==
    /\ v # fields[k]
    /\ fields' = [fields EXCEPT ![k] = v]
    /\ InputListener(k)
    /\ lastEvent' = <<"input", k>>
    /\ UNCHANGED <<isValidRet, statusText, statusColor, btnDisabled, btnLabel,
                   reqs, posts, log, timers, nSubmit, emailVars, menuVars,
                   fadeVars, rateVars, navVars>>

FieldBlur(k) ==
    /\ BlurListener(k)
    /\ lastEvent' = <<"blur", k>>
    /\ UNCHANGED <<fields, statusText, statusColor, btnDisabled, btnLabel,
                   reqs, posts, log, timers, nSubmit, emailVars, menuVars,
                   fadeVars, rateVars, navVars>>

-----------------------------------------------------------------------------
(* The submit handler *)

SubmitAbortsNever(isValid) == FALSE

\* if (!validateForm()) return;
SubmitAborts(isValid) == ~isValid

SubmissionDataTrimmedSubject(f) ==
    [access_key |-> AccessKey,
     name |-> f.name,
     email |-> f.email,
     message |-> f.message,
     subject |-> SubjectPrefix \o Trim(f.name) \o SubjectSuffix]

\* const data = {...}: FormData carries the fields' values as they stand.
SubmissionData(f) ==
    [access_key |-> AccessKey,
     name |-> f.name,
     email |-> f.email,
     message |-> f.message,
     subject |-> SubjectPrefix \o f.name \o SubjectSuffix]

\* The submit listener up to its first await: the status is cleared (its
\* className is set to the value it always has), the form validated and,
\* when valid, the button put in its loading state and the POST issued.
\* The listener is on the form: it runs for every submit event, whatever
\* the state of the button.
Submit ==
    /\ nSubmit < MaxSubmits
    /\ nSubmit' = nSubmit + 1
    /\ statusText' = ""
    /\ RunValidateForm
    /\ IF SubmitAborts(validateForm(fields).isValid)
         THEN UNCHANGED <<btnDisabled, btnLabel, reqs, posts>>
         ELSE /\ btnDisabled' = TRUE
              /\ btnLabel' = LoadingLabel
              /\ reqs' = Append(reqs, [orig |-> btnLabel, phase |-> "fetch",
                                     outcome |-> "pending"])
              /\ posts' = Append(posts, SubmissionData(fields))
    /\ UNCHANGED <<fields, statusColor, log, timers, emailVars, uiVars, navVars>>

\* The handlers still waiting for their request.
Pending == {i \in 1..Len(reqs) : reqs[i].phase # "done"}

FailureStatusShowsError(error) == error

\* formStatus.textContent in the catch block.
FailureStatus(error) == FailureText

\* catch (error) { ... }
Catch(error) ==
    /\ statusText' = FailureStatus(error)
    /\ statusColor' = FailureColor
    /\ log' = Append(log, error)

\* finally { ... }: originalButtonText is what the handler read before it
\* set the loading label.
Finally(i) ==
    IF reqs[i].orig # ""
      THEN /\ btnDisabled' = FALSE
           /\ btnLabel' = reqs[i].orig
      ELSE UNCHANGED <<btnDisabled, btnLabel>>

FetchResolveRestoresButton(i) ==
    /\ reqs[i].phase = "fetch"
    /\ reqs' = [reqs EXCEPT ![i].phase = "json"]
    /\ Finally(i)
    /\ UNCHANGED <<fields, errText, ariaInvalid, isValidRet, statusText,
                   statusColor, posts, log, timers, nSubmit, emailVars, uiVars, navVars>>

\* await fetch(...) resolves: the handler goes on to await response.json().
FetchResolve(i) ==
    /\ reqs[i].phase = "fetch"
    /\ reqs' = [reqs EXCEPT ![i].phase = "json"]
    /\ UNCHANGED <<fields, errText, ariaInvalid, isValidRet, statusText,
                   statusColor, btnDisabled, btnLabel, posts, log, timers,
                   nSubmit, emailVars, uiVars, navVars>>

\* await fetch(...) rejects.
FetchReject(i) ==
    /\ reqs[i].phase = "fetch"
    /\ reqs' = [reqs EXCEPT ![i].phase = "done", ![i].outcome = "rejected"]
    /\ Catch(NetworkErrorText)
    /\ Finally(i)
    /\ UNCHANGED <<fields, errText, ariaInvalid, isValidRet, posts, timers,
                   nSubmit, emailVars, uiVars, navVars>>

\* await response.json() rejects.
JsonReject(i) ==
    /\ reqs[i].phase = "json"
    /\ reqs' = [reqs EXCEPT ![i].phase = "done", ![i].outcome = "unparsable"]
    /\ Catch(ParseErrorText)
    /\ Finally(i)
    /\ UNCHANGED <<fields, errText, ariaInvalid, isValidRet, posts, timers,
                   nSubmit, emailVars, uiVars, navVars>>

TakesSuccessBranchAnyResult(result) == TRUE

\* if (result.success)
TakesSuccessBranch(result) == result.success

\* setTimeout(() => {...}, 5000) of the handler of request i.
StatusTimer(i) == [id |-> i, delay |-> StatusClearDelay, elapsed |-> 0]

\* await response.json() resolves to result.
JsonResolve(i, result) ==
    /\ reqs[i].phase = "json"
    /\ reqs' = [reqs EXCEPT ![i].phase = "done",
                            ![i].outcome = IF result.success THEN "success"
                                           ELSE "failure"]
    /\ IF TakesSuccessBranch(result)
         THEN /\ statusText' = SuccessText
              /\ statusColor' = SuccessColor
              /\ fields' = DefaultValues
              /\ timers' = timers \cup {StatusTimer(i)}
              /\ UNCHANGED log
         ELSE /\ Catch(IF result.message # "" THEN result.message
                       ELSE DefaultErrorText)
              /\ UNCHANGED <<fields, timers>>
    /\ Finally(i)
    /\ UNCHANGED <<errText, ariaInvalid, isValidRet, posts, nSubmit, emailVars, uiVars,
                   navVars>>

StatusTimeoutKeepsText(t) == statusText

\* The timer's callback: formStatus.textContent = ''.
StatusTimeoutText(t) == ""

\* Timer t of the status element is due and its callback runs.
StatusTimeout(t) ==
    /\ t \in timers
    /\ t.elapsed >= t.delay
    /\ timers' = timers \ {t}
    /\ statusText' = StatusTimeoutText(t)
    /\ UNCHANGED <<fields, errText, ariaInvalid, isValidRet, statusColor,
                   btnDisabled, btnLabel, reqs, posts, log, nSubmit, emailVars, uiVars,
                   navVars>>


-----------------------------------------------------------------------------
(* Navigation: the page's sections and the scroll offsets tried            *)

ScrollThreshold == 100
ThrottleLimit == 100
DebounceWait == 50
HighlightOffset == 150

\* section[id] elements in document order, with offsetTop and offsetHeight;
\* link says whether a .nav-link with href="#id" exists.  The first section
\* starts below the top of the page, there is a gap between "about" and
\* "skills", and "skills" has no link.
Sections ==
    <<[id |-> "home", top |-> 160, height |-> 140, link |-> TRUE],
      [id |-> "about", top |-> 300, height |-> 300, link |-> TRUE],
      [id |-> "skills", top |-> 700, height |-> 200, link |-> FALSE],
      [id |-> "contact", top |-> 900, height |-> 300, link |-> TRUE]>>

NavLinkIds == {Sections[n].id : n \in {m \in 1..Len(Sections) : Sections[m].link}}

ScrollOffsets == {0, 100, 101, 150, 500, 600, 800}

\* A sections.forEach whose test leaves out the section's first offset.
RECURSIVE HighlightFromOpenTop(_, _, _)
HighlightFromOpenTop(n, y, act) ==
    IF n > Len(Sections) THEN act
    ELSE LET sec == Sections[n]
             pos == y + HighlightOffset
         IN IF ~sec.link THEN HighlightFromOpenTop(n + 1, y, act)
            ELSE IF pos > sec.top /\ pos < sec.top + sec.height
                   THEN HighlightFromOpenTop(n + 1, y, {sec.id})
                   ELSE HighlightFromOpenTop(n + 1, y, act)

\* A highlightActiveSection that adds the class without removing it from
\* the other links first.
highlightActiveSectionNoClear(y, act) ==
    act \cup {Sections[n].id : n \in
                {m \in 1..Len(Sections) :
                    /\ Sections[m].link
                    /\ y + HighlightOffset >= Sections[m].top
                    /\ y + HighlightOffset < Sections[m].top + Sections[m].height}}

\* One pass of sections.forEach in highlightActiveSection: act is the set
\* of active links before section n is looked at.
RECURSIVE HighlightFrom(_, _, _)
HighlightFrom(n, y, act) ==
    IF n > Len(Sections) THEN act
    ELSE LET sec == Sections[n]
             pos == y + HighlightOffset
         IN IF ~sec.link THEN HighlightFrom(n + 1, y, act)
            ELSE IF pos >= sec.top /\ pos < sec.top + sec.height
                   THEN HighlightFrom(n + 1, y, {sec.id})
                   ELSE HighlightFrom(n + 1, y, act)

highlightActiveSection(y, act) == HighlightFrom(1, y, act)

\* window.scrollY > 100
NavIsScrolled(y) == y > ScrollThreshold

\* A scroll event at offset y: handleNavScroll (throttled) and
\* debouncedHighlight (debounced) both run.  Scroll events are at least one
\* clock step apart: the previous one's debounce timer has run for a while.
Scroll(y) ==
    /\ y # scrollY
    /\ debounceTimer # 0
    /\ scrollY' = y
    /\ IF ~inThrottle
         THEN /\ navScrolled' = NavIsScrolled(y)
              /\ inThrottle' = TRUE
              /\ throttleTimer' = 0
         ELSE UNCHANGED <<navScrolled, inThrottle, throttleTimer>>
    /\ debounceTimer' = 0
    /\ UNCHANGED <<activeLinks, docState, formVars, emailVars, uiVars>>

\* The throttle's timer: () => inThrottle = false
ThrottleTimeout ==
    /\ throttleTimer >= ThrottleLimit
    /\ inThrottle' = FALSE
    /\ throttleTimer' = -1
    /\ UNCHANGED <<scrollY, navScrolled, debounceTimer, activeLinks, docState,
                   formVars, emailVars, uiVars>>

\* The debounce's timer: later() calls highlightActiveSection.
DebounceTimeout ==
    /\ debounceTimer >= DebounceWait
    /\ debounceTimer' = -1
    /\ activeLinks' = highlightActiveSection(scrollY, activeLinks)
    /\ UNCHANGED <<scrollY, navScrolled, inThrottle, throttleTimer, docState,
                   formVars, emailVars, uiVars>>

\* init(), run once the document is parsed: highlightActiveSection.
DomReady ==
    /\ docState = "loading"
    /\ docState' = "interactive"
    /\ activeLinks' = highlightActiveSection(scrollY, activeLinks)
    /\ UNCHANGED <<scrollY, navScrolled, inThrottle, throttleTimer,
                   debounceTimer, formVars, emailVars, uiVars>>

\* The elements the selectors of observeElements match.
FadeElements == 1..NumFadeElements

\* The load event: its listeners highlightActiveSection and observeElements
\* run (the third, lazyLoadImages, touches only img[data-src] elements).
\* observeElements hands every matched element to fadeInObserver.
Load ==
    /\ docState = "interactive"
    /\ docState' = "complete"
    /\ activeLinks' = highlightActiveSection(scrollY, activeLinks)
    /\ observed' = observed \cup FadeElements
    /\ UNCHANGED <<scrollY, navScrolled, inThrottle, throttleTimer,
                   debounceTimer, formVars, emailVars, menuVars, rateVars,
                   lastEvent, visible, intersected, inView, reported>>

-----------------------------------------------------------------------------
(* Time *)

\* Milliseconds left on every pending setTimeout.
Remaining ==
    {t.delay - t.elapsed : t \in timers}
      \cup (IF throttleTimer >= 0 THEN {ThrottleLimit - throttleTimer} ELSE {})
      \cup (IF debounceTimer >= 0 THEN {DebounceWait - debounceTimer} ELSE {})
      \cup {t.delay - t.elapsed : t \in dTimers}
      \cup (IF tTimer >= 0 THEN {ThrottleLimit - tTimer} ELSE {})

\* Time passes: by step ms, or up to the next timer's due time if that is
\* sooner.  A due timer runs before more time passes.
Tick(step) ==
    /\ Remaining # {}
    /\ \A r \in Remaining : r > 0
    /\ LET next == CHOOSE r \in Remaining : \A q \in Remaining : r <= q
           d == Min(step, next)
       IN /\ timers' = {[t EXCEPT !.elapsed = @ + d] : t \in timers}
          /\ throttleTimer' = IF throttleTimer >= 0 THEN throttleTimer + d ELSE -1
          /\ debounceTimer' = IF debounceTimer >= 0 THEN debounceTimer + d ELSE -1
          /\ dTimers' = {[t EXCEPT !.elapsed = @ + d] : t \in dTimers}
          /\ tTimer' = IF tTimer >= 0 THEN tTimer + d ELSE -1
          /\ dSince' = IF dSince >= 0 THEN Min(dSince + d, DebounceWait) ELSE -1
          /\ tSince' = IF tSince >= 0 THEN Min(tSince + d, ThrottleLimit) ELSE -1
    /\ UNCHANGED <<fields, errText, ariaInvalid, isValidRet, statusText,
                   statusColor, btnDisabled, btnLabel, reqs, posts, log,
                   nSubmit, emailVars, scrollY, navScrolled, inThrottle,
                   activeLinks, docState, menuVars, fadeVars, dTimeout, dRuns,
                   dLast, tIn, tRuns, nCalls, lastEvent>>

-----------------------------------------------------------------------------
(* debounce and throttle by themselves: one function wrapped by             *)
(* debounce(func, 50) and one wrapped by throttle(func, 100), as the page   *)
(* wraps them; func records the arguments it is invoked with.  The n-th     *)
(* call of a behaviour passes n as its argument.                            *)

\* A clearTimeout that cancels nothing.
ClearTimeoutNoop(ts, id) == ts

\* clearTimeout(id) on the pending timers ts.
ClearTimeout(ts, id) == {t \in ts : t.id # id}

\* A test of inThrottle that never drops a call.
ThrottleDropsNever(flag) == FALSE

\* if (!inThrottle): the call is dropped while the flag is set.
ThrottleDrops(flag) == flag

\* executedFunction of debounce: the timer of the previous call is cleared
\* and a new one is set that carries this call's arguments.
DebouncedCall ==
    /\ nCalls < MaxCalls
    /\ nCalls' = nCalls + 1
    /\ dTimers' = ClearTimeout(dTimers, dTimeout)
                     \cup {[id |-> nCalls', delay |-> DebounceWait,
                            elapsed |-> 0, args |-> nCalls']}
    /\ dTimeout' = nCalls'
    /\ dLast' = nCalls'
    /\ dSince' = 0
    /\ lastEvent' = <<"debounced", nCalls'>>
    /\ UNCHANGED <<dRuns, tIn, tTimer, tRuns, tSince, menuVars, fadeVars,
                   formVars, emailVars, navVars>>

\* later of debounce, run by the timer t: clearTimeout(timeout), then func
\* with the arguments of the call that set t.
DebouncedLater(t) ==
    /\ t.elapsed >= t.delay
    /\ dTimers' = ClearTimeout(dTimers \ {t}, dTimeout)
    /\ dRuns' = Append(dRuns, t.args)
    /\ UNCHANGED <<dTimeout, dLast, dSince, nCalls, lastEvent, tIn, tTimer,
                   tRuns, tSince, menuVars, fadeVars, formVars, emailVars,
                   navVars>>

\* executedFunction of throttle: func runs unless inThrottle is set; then
\* the flag is set and a timer is started that resets it.
ThrottledCall ==
    /\ nCalls < MaxCalls
    /\ nCalls' = nCalls + 1
    /\ lastEvent' = <<"throttled", nCalls'>>
    /\ IF ThrottleDrops(tIn)
         THEN UNCHANGED <<tIn, tTimer, tRuns, tSince>>
         ELSE /\ tRuns' = Append(tRuns, nCalls')
              /\ tIn' = TRUE
              /\ tTimer' = 0
              /\ tSince' = 0
    /\ UNCHANGED <<dTimers, dTimeout, dRuns, dSince, dLast, menuVars,
                   fadeVars, formVars, emailVars, navVars>>

\* The timer of throttle: inThrottle = false.
ThrottledReset ==
    /\ tTimer >= ThrottleLimit
    /\ tIn' = FALSE
    /\ tTimer' = -1
    /\ UNCHANGED <<tRuns, tSince, nCalls, lastEvent, dTimers, dTimeout, dRuns,
                   dSince, dLast, menuVars, fadeVars, formVars, emailVars,
                   navVars>>

-----------------------------------------------------------------------------
(* The mobile menu and the keyboard.  The nav links lie inside .nav-menu,   *)
(* the trigger .nav-toggle precedes the menu in the tab order and "page"    *)
(* stands for the focusable elements that follow it.                        *)

\* nav?.offsetHeight || 80
NavHeight == 80

\* The ids of the linked sections in document order.
RECURSIVE NavLinkOrderFrom(_)
NavLinkOrderFrom(n) ==
    IF n > Len(Sections) THEN <<>>
    ELSE (IF Sections[n].link THEN <<Sections[n].id>> ELSE <<>>)
           \o NavLinkOrderFrom(n + 1)

NavLinkOrder == NavLinkOrderFrom(1)

\* What a click can land on: the trigger, a nav link, the menu beside its
\* links, anything else.
ClickTargets == {"toggle", "menu", "outside"} \cup NavLinkIds

\* navMenu.contains(e.target)
InMenu(target) == target \in {"menu"} \cup NavLinkIds

TabOrder == <<"toggle">> \o NavLinkOrder \o <<"page">>

\* The elements trapFocus has been called with: the function has no caller.
TrapFocusTargets == {}

\* A test for an outside click that forgets the trigger.
OutsideMenuOnly(target) == ~InMenu(target)

\* !navMenu.contains(e.target) && !navToggle?.contains(e.target)
OutsideMenuAndToggle(target) == ~InMenu(target) /\ target # "toggle"

\* A trigger handler that always suppresses body scroll.
OverflowAlwaysHidden(isExpanded) == "hidden"

\* body.style.overflow as the trigger's handler sets it.
OverflowAfterToggle(isExpanded) == IF ~isExpanded THEN "hidden" ELSE ""

\* setAttribute turns the boolean into its string.
BoolString(b) == IF b THEN "true" ELSE "false"

\* The three attributes the menu handlers write, as a record.
MenuState ==
    [open |-> menuOpen, aria |-> ariaExpanded, overflow |-> bodyOverflow]

MenuClosed == [open |-> FALSE, aria |-> "false", overflow |-> ""]

\* The click listener of navToggle.
ToggleListener(m) ==
    LET isExpanded == m.aria = "true"
    IN [open |-> ~m.open,
        aria |-> BoolString(~isExpanded),
        overflow |-> OverflowAfterToggle(isExpanded)]

\* The click listener of each nav link.
NavLinkListener(m) == IF m.open THEN MenuClosed ELSE m

\* The click listener of document.
DocumentClickListener(m, target) ==
    IF m.open /\ OutsideMenuAndToggle(target) THEN MenuClosed ELSE m

\* The top the anchor listener passes to window.scrollTo for link id.
AnchorTarget(id) ==
    LET n == CHOOSE m \in 1..Len(Sections) : Sections[m].id = id
    IN Sections[n].top - NavHeight

\* A click on target: the listeners of the target run, then the listener
\* of document.  The click gives the focus to a trigger or link.  The
\* scroll events of the smooth scroll a link click asks for arrive later.
Click(target) ==
    LET m1 == IF target = "toggle" THEN ToggleListener(MenuState)
              ELSE IF target \in NavLinkIds THEN NavLinkListener(MenuState)
              ELSE MenuState
        m2 == DocumentClickListener(m1, target)
    IN /\ menuOpen' = m2.open
       /\ ariaExpanded' = m2.aria
       /\ bodyOverflow' = m2.overflow
       /\ scrollTo' = IF target \in NavLinkIds THEN AnchorTarget(target)
                      ELSE scrollTo
       /\ focus' = IF target \in {"toggle"} \cup NavLinkIds THEN target
                    ELSE "body"
       /\ lastEvent' = <<"click", target>>
       /\ UNCHANGED <<fadeVars, rateVars, formVars, emailVars, navVars>>

\* An Escape keydown: the keydown listener of document.
KeyEscape ==
    /\ IF menuOpen
         THEN /\ menuOpen' = FALSE
              /\ ariaExpanded' = "false"
              /\ focus' = "toggle"
              /\ bodyOverflow' = ""
         ELSE UNCHANGED <<menuOpen, ariaExpanded, focus, bodyOverflow>>
    /\ lastEvent' = <<"key", "Escape">>
    /\ UNCHANGED <<scrollTo, fadeVars, rateVars, formVars, emailVars, navVars>>

\* The position of element f in the tab order, 0 if it is not in it.
TabIndex(f) ==
    IF \E n \in 1..Len(TabOrder) : TabOrder[n] = f
      THEN CHOOSE n \in 1..Len(TabOrder) : TabOrder[n] = f
      ELSE 0

\* The browser's own handling of Tab and Shift+Tab.
DefaultTab(shift, f) ==
    LET n == TabIndex(f)
        last == Len(TabOrder)
    IN IF shift THEN TabOrder[IF n <= 1 THEN last ELSE n - 1]
       ELSE TabOrder[IF n = last THEN 1 ELSE n + 1]

\* handleTab of trapFocus: the element it moves the focus to, or none when
\* it leaves the key to the browser.
HandleTab(shift, f) ==
    IF shift
      THEN IF f = NavLinkOrder[1] THEN <<NavLinkOrder[Len(NavLinkOrder)]>>
           ELSE <<>>
      ELSE IF f = NavLinkOrder[Len(NavLinkOrder)] THEN <<NavLinkOrder[1]>>
           ELSE <<>>

\* A Tab keydown: handleTab runs if it was added to the menu and the focus
\* is inside the menu; the keydown listener of document ignores the key.
KeyTab(shift) ==
    LET handled == IF "menu" \in TrapFocusTargets /\ InMenu(focus)
                     THEN HandleTab(shift, focus)
                     ELSE <<>>
    IN /\ focus' = IF handled # <<>> THEN handled[1]
                    ELSE DefaultTab(shift, focus)
       /\ lastEvent' = <<"key", IF shift THEN "ShiftTab" ELSE "Tab">>
       /\ UNCHANGED <<menuOpen, ariaExpanded, bodyOverflow, scrollTo,
                      fadeVars, rateVars, formVars, emailVars, navVars>>

-----------------------------------------------------------------------------
(* Scroll animations: fadeInObserver and the elements it observes.  The     *)
(* observer reports an element after observe() and whenever its             *)
(* intersection with the viewport has changed since the last report.        *)

\* A callback that marks every reported element.
MarksVisibleAlways(isIntersecting) == TRUE

\* if (entry.isIntersecting)
MarksVisible(isIntersecting) == isIntersecting

\* entry.isIntersecting as the observer records it.
ReportOf(isIntersecting) == IF isIntersecting THEN "in" ELSE "out"

\* The observed elements the observer has something to report of.
Unreported == {el \in observed : reported[el] # ReportOf(inView[el])}

\* Scrolling or resizing moves element el across the observer's threshold.
ViewChange(el) ==
    /\ inView' = [inView EXCEPT ![el] = ~@]
    /\ UNCHANGED <<observed, visible, intersected, reported, menuVars,
                   rateVars, lastEvent, formVars, emailVars, navVars>>

\* The callback of fadeInObserver, called with entries for the elements
\* of es: each intersecting one gets the class "visible".
Report(es) ==
    /\ es # {}
    /\ es \subseteq Unreported
    /\ visible' = visible \cup {el \in es : MarksVisible(inView[el])}
    /\ intersected' = intersected \cup {el \in es : inView[el]}
    /\ reported' = [el \in FadeElements |->
                      IF el \in es THEN ReportOf(inView[el]) ELSE reported[el]]
    /\ UNCHANGED <<observed, inView, menuVars, rateVars, lastEvent, formVars,
                   emailVars, navVars>>

-----------------------------------------------------------------------------
(* Specifications *)

InitForm ==
    /\ fields = DefaultValues
    /\ errText = [k \in FieldNames |-> ""]
    /\ ariaInvalid = [k \in FieldNames |-> FALSE]
    /\ isValidRet = <<>>
    /\ statusText = ""
    /\ statusColor = ""
    /\ btnDisabled = FALSE
    /\ btnLabel = IdleLabel
    /\ reqs = <<>>
    /\ posts = <<>>
    /\ log = <<>>
    /\ timers = {}
    /\ nSubmit = 0

InitEmail ==
    /\ emailArg = <<>>
    /\ emailRet = <<>>

InitNav ==
    /\ scrollY = 0
    /\ navScrolled = FALSE
    /\ inThrottle = FALSE
    /\ throttleTimer = -1
    /\ debounceTimer = -1
    /\ activeLinks = {}
    /\ docState = "loading"

\* The menu is closed and nothing has the focus; no element is observed;
\* neither wrapped function has been called.
InitUi ==
    /\ menuOpen = FALSE
    /\ ariaExpanded = "false"
    /\ bodyOverflow = ""
    /\ scrollTo = -1
    /\ focus = "body"
    /\ observed = {}
    /\ visible = {}
    /\ intersected = {}
    /\ inView = [e \in FadeElements |-> FALSE]
    /\ reported = [e \in FadeElements |-> "none"]
    /\ dTimers = {}
    /\ dTimeout = 0
    /\ dRuns = <<>>
    /\ dSince = -1
    /\ dLast = 0
    /\ tIn = FALSE
    /\ tTimer = -1
    /\ tRuns = <<>>
    /\ tSince = -1
    /\ nCalls = 0
    /\ lastEvent = <<>>

Init == InitForm /\ InitEmail /\ InitNav /\ InitUi

\* The contact form.
Next ==
    \/ \E k \in FieldNames : \E v \in TypedValues[k] : Input(k, v)
    \/ \E k \in FieldNames : Blur(k)
    \/ Submit
    \/ \E i \in 1..Len(reqs) : FetchResolve(i)
    \/ \E i \in 1..Len(reqs) : FetchReject(i)
    \/ \E i \in 1..Len(reqs) : \E r \in Results : JsonResolve(i, r)
    \/ \E i \in 1..Len(reqs) : JsonReject(i)
    \/ \E t \in timers : StatusTimeout(t)
    \/ Tick(StatusClearDelay \div FormGrain)

Spec == Init /\ [][Next]_vars

\* The navigation.
NextNav ==
    \/ \E y \in ScrollOffsets : Scroll(y)
    \/ ThrottleTimeout
    \/ DebounceTimeout
    \/ DomReady
    \/ Load
    \/ Tick(DebounceWait \div NavGrain)

SpecNav == Init /\ [][NextNav]_vars

\* The two wrappers called at any time.
NextRate ==
    \/ DebouncedCall
    \/ \E t \in dTimers : DebouncedLater(t)
    \/ ThrottledCall
    \/ ThrottledReset
    \/ Tick(DebounceWait \div NavGrain)

SpecRate == Init /\ [][NextRate]_vars

\* The menu under clicks and keys.
NextMenu ==
    \/ \E target \in ClickTargets : Click(target)
    \/ KeyEscape
    \/ \E shift \in BOOLEAN : KeyTab(shift)

SpecMenu == Init /\ [][NextMenu]_vars

\* The form's fields under input and blur events alone.
NextFields ==
    \/ \E k \in FieldNames : \E v \in TypedValues[k] : FieldInput(k, v)
    \/ \E k \in FieldNames : FieldBlur(k)

SpecFields == Init /\ [][NextFields]_vars

\* The scroll animations from page load on.
NextFade ==
    \/ DomReady
    \/ Load
    \/ \E el \in FadeElements : ViewChange(el)
    \/ \E es \in SUBSET FadeElements : Report(es)

SpecFade == Init /\ [][NextFade]_vars


-----------------------------------------------------------------------------
(* The validators as pure functions: every input of a bounded set is       *)
(* handed to validateEmail, and every triple of field values to            *)
(* validateForm.                                                           *)

Alphabet == {"a", "@", ".", " "}

StringsUpTo(n) == UNION {[1..k -> Alphabet] : k \in 0..n}

EmailExamples ==
    {<<"a", "@", "b", ".", "c", "o">>,
     <<"a", "@", "b">>,
     <<"a", " ", "b", "@", "c", ".", "c", "o", "m">>}

EmailInputs == StringsUpTo(MaxEmailLen) \cup EmailExamples

\* validateEmail(emailArg) is called and returns.
CallValidateEmail ==
    /\ emailRet = <<>>
    /\ emailRet' = <<validateEmail(emailArg)>>
    /\ UNCHANGED <<emailArg, formVars, navVars, uiVars>>

InitEmailCall ==
    /\ InitForm
    /\ InitNav
    /\ InitUi
    /\ emailArg \in EmailInputs
    /\ emailRet = <<>>

NextEmail == CallValidateEmail

SpecEmail == InitEmailCall /\ [][NextEmail]_vars

\* n letters with i blanks before and j blanks after.
Padded(c, n, i, j) == Repeat(" ", i) \o Repeat(c, n) \o Repeat(" ", j)

NameInputs ==
    {Padded("a", n, i, j) : n \in 0..(MinNameLength + 1), i \in 0..MaxPad, j \in 0..MaxPad}
      \cup {<<"a", "l">>}

MessageInputs ==
    {Padded("m", n, i, j) : n \in 0..MaxLetters, i \in 0..MaxPad, j \in 0..MaxPad}

FormEmailInputs ==
    EmailExamples \cup
    {<<>>, <<" ">>, <<"a">>, <<"a", "@", "b", ".">>, <<"@", "b", ".", "c">>,
     <<" ", "a", "@", "b", ".", "c", " ">>, <<"a", "@", "b", " ", ".", "c">>}

\* validateForm() is called on the form as it stands.
CallValidateForm ==
    /\ isValidRet = <<>>
    /\ RunValidateForm
    /\ UNCHANGED <<fields, statusText, statusColor, btnDisabled, btnLabel,
                   reqs, posts, log, timers, nSubmit, emailVars, uiVars, navVars>>

InitValidate ==
    /\ fields \in [name : NameInputs, email : FormEmailInputs, message : MessageInputs]
    /\ errText = [k \in FieldNames |-> ""]
    /\ ariaInvalid = [k \in FieldNames |-> FALSE]
    /\ isValidRet = <<>>
    /\ statusText = ""
    /\ statusColor = ""
    /\ btnDisabled = FALSE
    /\ btnLabel = IdleLabel
    /\ reqs = <<>>
    /\ posts = <<>>
    /\ log = <<>>
    /\ timers = {}
    /\ nSubmit = 0
    /\ InitEmail
    /\ InitNav
    /\ InitUi

NextValidate == CallValidateForm

SpecValidate == InitValidate /\ [][NextValidate]_vars


-----------------------------------------------------------------------------
(* Properties of the contact form, checked under Spec                      *)

\* A step in which the submit listener ran and validateForm returned b.
SubmitStep(b) == nSubmit' = nSubmit + 1 /\ isValidRet' = <<b>>

\* A step in which the request of handler i ends with one of the outcomes.
EndsWith(i, outcomes) ==
    /\ reqs[i].outcome = "pending"
    /\ reqs'[i].outcome \in outcomes

FailureOutcomes == {"failure", "rejected", "unparsable"}

\* C1: a submit event whose validation fails (validateForm returns false)
\* issues no HTTP request and neither disables nor relabels the submit
\* control.
C1_InvalidSubmitSendsNothing ==
    [][SubmitStep(FALSE) =>
          /\ posts' = posts
          /\ reqs' = reqs
          /\ btnDisabled' = btnDisabled
          /\ btnLabel' = btnLabel]_vars

\* A submit event has failed validation: more submit events than requests,
\* and a field error is on display.
C1_Witness ==
    /\ nSubmit > Len(posts)
    /\ isValidRet = <<FALSE>>
    /\ \E k \in FieldNames : ariaInvalid[k]

\* C2: every submission that entered the Submitting state returns to Idle
\* with the submit control enabled and showing its original label, also
\* when a submit arrives while an earlier request is pending.  Stated on
\* the states in which every request has ended: there the control is
\* enabled and shows the label it had before the first submit.
C2_IdleAfterEverySubmission ==
    Pending = {} => ~btnDisabled /\ btnLabel = IdleLabel

\* C3: a response with success=true leaves the fields cleared and the
\* status non-empty and starts the clearing timer; the timer runs exactly
\* 5000 ms after that response and leaves the status empty, whether or not
\* the status was empty already.
C3_SuccessClearsThenStatusExpires ==
    /\ [](\A t \in timers : t.elapsed <= 5000)
    /\ [][/\ \A i \in 1..Len(reqs) :
               EndsWith(i, {"success"}) =>
                 /\ \A k \in FieldNames : fields'[k] = <<>>
                 /\ statusText' # ""
                 /\ \E t \in timers' : t.id = i /\ t.elapsed = 0
          /\ \A t \in timers :
               t.id \notin {u.id : u \in timers'} =>
                 /\ t.elapsed = 5000
                 /\ statusText' = ""]_vars

\* Two submissions succeeded and both clearing timers have run; the status
\* is empty.
C3_Witness ==
    /\ Len(reqs) = 2
    /\ \A i \in 1..Len(reqs) : reqs[i].outcome = "success"
    /\ timers = {}
    /\ statusText = ""

\* C4: when a submission fails (success=false, rejected fetch, unparsable
\* response) the step that handles the failure leaves the three field
\* values as they were.
C4_FailureKeepsFields ==
    [][\A i \in 1..Len(reqs) :
          EndsWith(i, FailureOutcomes) => fields' = fields]_vars

\* A submission has failed and the form still holds what was typed.
C4_Witness ==
    /\ \E i \in 1..Len(reqs) : reqs[i].outcome \in FailureOutcomes
    /\ \A k \in FieldNames : fields[k] # <<>>
    /\ statusText # ""

\* C5: the status text is always empty, the success text or the generic
\* failure text; every failing submission shows the same generic text and
\* its underlying error goes to the log only.
C5_StatusHidesError ==
    /\ [](statusText \in {"", SuccessText, FailureText})
    /\ [][\A i \in 1..Len(reqs) :
             EndsWith(i, FailureOutcomes) =>
               /\ statusText' = FailureText
               /\ Len(log') = Len(log) + 1
               /\ log'[Len(log')] # statusText']_vars

\* Two submissions failed with different underlying errors and the status
\* shows the generic text.
C5_Witness ==
    /\ Len(log) = 2
    /\ log[1] # log[2]
    /\ statusText = FailureText

\* C6: a submit of a valid form issues exactly one POST, whose body holds
\* the name, email and message values of the form and the subject
\* "New message from " + name + " - Portfolio Contact Form" with the same
\* name; no other step issues a POST.
C6_OnePostWithSubject ==
    [][IF SubmitStep(TRUE)
         THEN /\ Len(posts') = Len(posts) + 1
              /\ SubSeq(posts', 1, Len(posts)) = posts
              /\ LET body == posts'[Len(posts')] IN
                   /\ body.name = fields.name
                   /\ body.email = fields.email
                   /\ body.message = fields.message
                   /\ body.subject = SubjectPrefix \o body.name \o SubjectSuffix
         ELSE posts' = posts]_vars

\* One POST was issued for a name that ends in a blank, and its request has
\* failed without a second POST.
C6_Witness ==
    /\ Len(posts) = 1
    /\ posts[1].name = <<"a", "l", " ">>
    /\ reqs[1].outcome \in FailureOutcomes
    /\ nSubmit = 1

\* C7 as stated: at most one request is pending, and while one is pending
\* the control is disabled and shows the loading label.
C7_AtMostOneInFlight ==
    /\ Cardinality(Pending) <= 1
    /\ Pending # {} => btnDisabled /\ btnLabel = LoadingLabel

\* C7 as amended: every validated submit disables the control and shows the
\* loading label, and the control leaves that state only in a step in which
\* one of the pending requests ends.
C7_LoadingUntilARequestEnds ==
    [][/\ SubmitStep(TRUE) => btnDisabled' /\ btnLabel' = LoadingLabel
       /\ (btnDisabled /\ btnLabel = LoadingLabel
             /\ ~(btnDisabled' /\ btnLabel' = LoadingLabel))
            => \E i \in Pending : reqs'[i].phase = "done"]_vars

\* A request is past fetch() and waits for its body, with the control
\* still disabled and showing the loading label.
C7_Witness ==
    /\ \E i \in Pending : reqs[i].phase = "json"
    /\ btnDisabled
    /\ btnLabel = LoadingLabel


-----------------------------------------------------------------------------
(* Properties of the validators, checked under SpecValidate and SpecEmail  *)

\* Neither whitespace nor '@'.
Plain(c) == c \notin {" ", "\t", "\n", "\r", "@"}

\* x is: one or more plain characters, '@', one or more plain characters,
\* '.', one or more plain characters.
MatchesEmailPattern(x) ==
    \E i \in 1..Len(x), j \in 1..Len(x) :
        /\ 1 < i /\ i + 1 < j /\ j < Len(x)
        /\ x[i] = "@"
        /\ x[j] = "."
        /\ \A k \in 1..Len(x) : k \notin {i, j} => Plain(x[k])

\* The error a field is to show for the text v, "" for none.
ExpectedError(k, v) ==
    CASE k = "name" ->
           IF v = <<>> THEN NameRequiredText
           ELSE IF Len(v) < 2 THEN NameTooShortText ELSE ""
      [] k = "email" ->
           IF v = <<>> THEN EmailRequiredText
           ELSE IF ~MatchesEmailPattern(v) THEN EmailInvalidText ELSE ""
      [] k = "message" ->
           IF v = <<>> THEN MessageRequiredText
           ELSE IF Len(v) < 10 THEN MessageTooShortText ELSE ""

\* validateForm has marked every field by what text(k) calls for and has
\* returned true iff no field has an error.
ValidatedBy(text(_)) ==
    isValidRet # <<>> =>
      /\ \A k \in FieldNames :
           /\ errText[k] = ExpectedError(k, text(k))
           /\ ariaInvalid[k] = (ExpectedError(k, text(k)) # "")
      /\ isValidRet[1] = (\A k \in FieldNames : ExpectedError(k, text(k)) = "")

RawValue(k) == fields[k]
TrimmedValue(k) == Trim(fields[k])

\* C8 as stated: a field is valid iff its value is non-empty and passes its
\* rule (name length >= 2, email pattern, message length >= 10), an empty
\* field gets the Required error, and validateForm returns true iff all
\* three are valid.
C8_ValidIffRuleOnValue == ValidatedBy(RawValue)

\* C8 as amended: the same, with every rule (and emptiness) applied to the
\* value with its leading and trailing whitespace removed; name "a" is
\* TooShort and "al" valid, a message of 9 characters TooShort and one of
\* 10 valid.
C8_ValidIffRuleOnTrimmedValue ==
    /\ ValidatedBy(TrimmedValue)
    /\ isValidRet # <<>> =>
         /\ fields.name = <<"a">> => errText.name = NameTooShortText
         /\ fields.name = <<"a", "l">> => ~ariaInvalid.name
         /\ fields.message = Repeat("m", 9) => errText.message = MessageTooShortText
         /\ fields.message = Repeat("m", 10) => ~ariaInvalid.message

\* validateForm ran on a name of two characters of which one is a blank
\* and reported it too short, with a valid email and a 10-letter message.
C8_Witness ==
    /\ isValidRet = <<FALSE>>
    /\ fields.name = <<" ", "a">>
    /\ errText.name = NameTooShortText
    /\ fields.message = Repeat("m", 10)
    /\ ~ariaInvalid.message
    /\ ~ariaInvalid.email

\* C9: validateEmail(x) is true iff x is one or more characters that are
\* neither whitespace nor '@', then '@', then one or more such characters,
\* then '.', then one or more such characters; "a@b.co" is accepted,
\* "a@b" and "a b@c.com" are rejected.
C9_ValidateEmailIffPattern ==
    emailRet # <<>> =>
      /\ emailRet[1] = MatchesEmailPattern(emailArg)
      /\ emailArg = <<"a", "@", "b", ".", "c", "o">> => emailRet[1]
      /\ emailArg = <<"a", "@", "b">> => ~emailRet[1]
      /\ emailArg = <<"a", " ", "b", "@", "c", ".", "c", "o", "m">> => ~emailRet[1]

\* validateEmail accepted an address whose domain part holds two dots.
C9_Witness ==
    /\ emailRet = <<TRUE>>
    /\ emailArg = <<"a", "@", ".", ".", "a">>

-----------------------------------------------------------------------------
(* Properties of the navigation, checked under SpecNav                     *)

\* C10: the nav has the "scrolled" state exactly when the scroll offset
\* exceeds 100; once scrolling has stopped (no throttle or debounce timer
\* is left pending) the nav's state agrees with the final scroll offset.
C10_NavAgreesOnceScrollingStops ==
    (throttleTimer = -1 /\ debounceTimer = -1) =>
       (navScrolled <=> scrollY > 100)

\* C11: the sections' offset ranges do not overlap, and after any sequence
\* of scroll and load events at most one nav link is active.
C11_AtMostOneActiveLink == Cardinality(activeLinks) <= 1

\* The page was scrolled from one linked section into another and the
\* highlight has run there.
C11_Witness ==
    /\ activeLinks = {"contact"}
    /\ scrollY = 800
    /\ docState = "complete"
    /\ debounceTimer = -1

\* The steps in which highlightActiveSection runs: init, the load event and
\* the debounce timer of the scroll listener.
HighlightRuns ==
    \/ docState' # docState
    \/ debounceTimer >= 0 /\ debounceTimer' = -1

\* The linked sections whose range [top, top + height) holds pos.
LinkedSectionsAt(pos) ==
    {Sections[n].id : n \in
        {m \in 1..Len(Sections) :
            /\ Sections[m].link
            /\ Sections[m].top <= pos
            /\ pos < Sections[m].top + Sections[m].height}}

\* C18: when highlightActiveSection runs with scrollY + 150 inside a linked
\* section, that section's link is active afterwards and no other is; when
\* scrollY + 150 lies in no linked section, the active links are as before.
C18_HighlightMarksSectionOrKeeps ==
    [][HighlightRuns =>
         LET hit == LinkedSectionsAt(scrollY + HighlightOffset)
         IN IF hit # {}
              THEN \E id \in hit : activeLinks' = {id}
              ELSE activeLinks' = activeLinks]_vars

\* The highlight has run inside "skills", which has no link, and the link
\* of "about" is still the active one.
C18_Witness ==
    /\ scrollY = 600
    /\ debounceTimer = -1
    /\ activeLinks = {"about"}

-----------------------------------------------------------------------------
(* Properties of debounce and throttle, checked under SpecRate             *)

\* The debounced function has been called and its last call is still
\* waiting: one timer is pending, set by the last call.
DebouncePending ==
    dTimers = {[id |-> dLast, delay |-> DebounceWait, elapsed |-> dSince,
                args |-> dLast]}

\* The last call of the debounced function has been served.
DebounceServed ==
    /\ dTimers = {}
    /\ dRuns # <<>>
    /\ dRuns[Len(dRuns)] = dLast

\* C16: func is never invoked while fewer than wait ms have passed since the
\* most recent call; it is invoked once per burst, wait ms after the burst's
\* last call and with that call's arguments; a new call cancels the pending
\* invocation of the previous one.  dSince is the time since the most
\* recent call and dLast that call's argument.
C16_DebounceRunsOncePerBurst ==
    /\ [](/\ dLast # 0 => (DebouncePending \/ DebounceServed)
          /\ dSince < DebounceWait => ~DebounceServed
          /\ \A i, j \in 1..Len(dRuns) : dRuns[i] = dRuns[j] => i = j)
    /\ [][/\ dRuns' # dRuns =>
               /\ dSince = DebounceWait
               /\ dRuns' = Append(dRuns, dLast)
               /\ dTimers' = {}
          /\ dLast' # dLast =>
               /\ dTimers' = {[id |-> dLast', delay |-> DebounceWait,
                               elapsed |-> 0, args |-> dLast']}
               /\ dRuns' = dRuns]_vars

\* A burst of two calls was served once, with the second call's argument,
\* and a later call was served too.
C16_Witness ==
    /\ Len(dRuns) = 2
    /\ dRuns[1] > 1
    /\ dRuns[2] = dLast
    /\ dTimers = {}

\* A step that calls the throttled function.
IsThrottledCall == lastEvent' # lastEvent /\ lastEvent'[1] = "throttled"

\* C17: the first call runs func immediately; a call less than limit ms
\* after the last executed call is dropped; func runs only in the step of
\* a call and with that call's arguments (nothing is queued or replayed),
\* and any two executions are at least limit ms apart.  tSince is the time
\* since the last executed call, -1 before the first.
C17_ThrottleOncePerWindow ==
    [][/\ (IsThrottledCall /\ tSince = -1) =>
              tRuns' = <<lastEvent'[2]>>
       /\ (IsThrottledCall /\ tSince >= 0 /\ tSince < ThrottleLimit) =>
              tRuns' = tRuns
       /\ tRuns' # tRuns =>
              /\ IsThrottledCall
              /\ tRuns' = Append(tRuns, lastEvent'[2])
              /\ tSince = -1 \/ tSince >= ThrottleLimit]_vars

\* The first call ran, a later call was dropped inside the window, and a
\* call after the window ran.
C17_Witness ==
    /\ Len(tRuns) = 2
    /\ tRuns[1] = 1
    /\ tRuns[2] > 2
    /\ lastEvent = <<"throttled", tRuns[2]>>

-----------------------------------------------------------------------------
(* Properties of the menu, checked under SpecMenu; lastEvent' names the     *)
(* event a step handles.                                                    *)

\* C12: a click on the trigger toggles the menu, the document's click
\* listener not undoing it; after a click on a nav link, a click outside
\* menu and trigger, or an Escape keydown the menu is closed, and an Escape
\* that closes the menu gives the focus to the trigger.
C12_MenuTogglesAndCloses ==
    [][/\ lastEvent' = <<"click", "toggle">> => menuOpen' = ~menuOpen
       /\ (lastEvent'[1] = "click"
             /\ lastEvent'[2] \in NavLinkIds \cup {"outside"}) => ~menuOpen'
       /\ lastEvent' = <<"key", "Escape">> =>
             /\ ~menuOpen'
             /\ menuOpen => focus' = "toggle"]_vars

\* An Escape keydown that followed a nav link click: the menu is closed
\* and the trigger has the focus.
C12_Witness ==
    /\ lastEvent = <<"key", "Escape">>
    /\ scrollTo = AnchorTarget("about")
    /\ focus = "toggle"
    /\ ~menuOpen

\* C13: the open class, aria-expanded = 'true' and body overflow hidden
\* hold together or not at all.
C13_MenuAttributesAgree ==
    /\ menuOpen <=> ariaExpanded = "true"
    /\ menuOpen <=> bodyOverflow = "hidden"

\* The menu was opened again after a link click had closed it.
C13_Witness ==
    /\ menuOpen
    /\ ariaExpanded = "true"
    /\ bodyOverflow = "hidden"
    /\ scrollTo = AnchorTarget("contact")
    /\ lastEvent = <<"click", "toggle">>

\* C14: while the menu is open, a Tab or Shift+Tab keydown with the focus
\* on one of the menu's focusable elements leaves the focus on one of
\* them: Tab on the last moves it to the first, Shift+Tab on the first to
\* the last.
C14_TabStaysInOpenMenu ==
    [][(/\ menuOpen
        /\ focus \in NavLinkIds
        /\ lastEvent'[1] = "key"
        /\ lastEvent'[2] \in {"Tab", "ShiftTab"}) =>
          /\ focus' \in NavLinkIds
          /\ (lastEvent'[2] = "Tab" /\ focus = NavLinkOrder[Len(NavLinkOrder)])
                => focus' = NavLinkOrder[1]
          /\ (lastEvent'[2] = "ShiftTab" /\ focus = NavLinkOrder[1])
                => focus' = NavLinkOrder[Len(NavLinkOrder)]]_vars

-----------------------------------------------------------------------------
(* Properties of the scroll animations, checked under SpecFade             *)

\* C15: an element is visible only if it has been reported as
\* intersecting; a step makes visible exactly the elements it reports as
\* intersecting, and no step takes the visible flag away.
C15_VisibleOnceIntersecting ==
    /\ [](visible \subseteq intersected)
    /\ [][/\ visible \subseteq visible'
          /\ visible' = visible \cup
                {el \in FadeElements :
                    reported'[el] # reported[el] /\ reported'[el] = "in"}]_vars

\* Element 1 was marked visible and has since been reported as out of
\* view; element 2 has been reported, never as intersecting, and is not
\* visible.
C15_Witness ==
    /\ visible = {1}
    /\ reported[1] = "out"
    /\ reported[2] = "out"
    /\ observed = FadeElements

-----------------------------------------------------------------------------
(* Properties of the field listeners, checked under SpecFields; lastEvent'  *)
(* names the event a step handles.                                          *)

\* C19: a blur on a field whose trimmed value is empty changes no field's
\* error; a blur on a non-empty field leaves every field showing an error
\* iff validateForm's rule rejects its current value; an input on a field
\* clears that field's error and changes no other field's.
C19_BlurValidatesInputClears ==
    [][LET k == lastEvent'[2] IN
       /\ (lastEvent'[1] = "blur" /\ Trim(fields[k]) = <<>>) =>
             /\ errText' = errText
             /\ ariaInvalid' = ariaInvalid
       /\ (lastEvent'[1] = "blur" /\ Trim(fields[k]) # <<>>) =>
             \A j \in FieldNames :
                /\ errText'[j] = ExpectedError(j, Trim(fields[j]))
                /\ ariaInvalid'[j] = (ExpectedError(j, Trim(fields[j])) # "")
       /\ lastEvent'[1] = "input" =>
             /\ errText'[k] = ""
             /\ ~ariaInvalid'[k]
             /\ \A j \in FieldNames \ {k} :
                   /\ errText'[j] = errText[j]
                   /\ ariaInvalid'[j] = ariaInvalid[j]]_vars

\* A blur had marked the untouched message field as required; the input
\* on the email field has cleared the email field's error alone.
C19_Witness ==
    /\ lastEvent = <<"input", "email">>
    /\ fields.message = <<>>
    /\ errText.message = MessageRequiredText
    /\ errText.name = NameTooShortText
    /\ errText.email = ""
    /\ isValidRet = <<FALSE>>

-----------------------------------------------------------------------------
(* The status message and its timers, checked under Spec                   *)

\* C20: a status message goes away without a new submit only when it is a
\* success message and the timer that clears it is the one its own
\* submission started, the youngest timer, so that the message has been
\* shown for 5000 ms; a failure message stays until the next submit.
C20_TimerClearsOwnMessageOnly ==
    [][(nSubmit' = nSubmit /\ statusText # "" /\ statusText' = "") =>
          /\ statusText = SuccessText
          /\ \A t \in timers : t.elapsed >= StatusClearDelay]_vars

=============================================================================
